---- MODULE Spec2Model ----
(***************************************************************************)
(* A model of vlock's core: the topological sorter (src/src/tsort.h), the  *)
(* VT guard's signal handlers (src/signals.c) and the child-process        *)
(* supervisor (src/src/process.c).  Each subsystem has its own             *)
(* specification over its own group of variables; the other groups stay    *)
(* at their initial values.                                                *)
(***************************************************************************)
EXTENDS Integers, Sequences, FiniteSets, TLC

\* ------------------------------------------------------------------ bounds
MaxNodes == 3
MaxEdges == 2
MaxZeros == 4
MaxMaskCalls == 2
MaxCalls == 2
MaxFd == 9
MaxConv == 2
MaxMsg == 2

\* ============================================================== tsort.h
VARIABLES
  nodes,         \* std::list<T>& nodes
  edges,         \* std::list<Edge<T>*>& edges; an edge is a record with its identity
  zeros,         \* std::list<T> *zeros
  sorted_nodes,  \* std::list<T> *sorted_nodes
  zero,          \* T zero
  it,            \* the for loop's iterator into edges
  result,        \* bool result
  tpc,           \* position inside tsort
  run,           \* which call of tsort on this graph is running (1 or 2)
  in_nodes,      \* history: the node list of the first call
  in_edges,      \* history: the edge list of the first call
  run_edges,     \* history: the edge list left by the first call
  readyLog       \* history: every node in the order it joined zeros, this call

tsortVars == <<nodes, edges, zeros, sorted_nodes, zero, it, result, tpc, run,
               in_nodes, in_edges, run_edges, readyLog>>

\* ============================================================ signals.c
VARIABLES
  lk_state,      \* "prelock", "locked", or "exited" once signal_die called exit(0)
  sigmask,       \* the process's signal mask: the set of blocked signals
  osig,          \* static sigset_t osig
  handler,       \* the handler table: signal -> installed handler
  o_lock_all,    \* the lock-all flag
  reldisp,       \* the argument of the last ioctl(vfd, VT_RELDISP, arg); -1 before any
  auth_st,       \* the authentication child: "none", "running", "zombie", "reaped"
  auth_status,   \* how its attempt ended: "none", "success", "failure", "signaled"
  other_st,      \* another child of the process: "none", "running", "zombie", "reaped"
  chld_pending,  \* SIGCHLD is pending
  die_wait,      \* what signal_die's waitpid(-1, NULL, WNOHANG) last returned, as a string
  terminal_restored, \* restore_terminal() was called
  mask_calls,    \* how many times mask_signals has run
  restore_calls, \* how many times restore_signals has run
  pre_mask,      \* history: the signal mask before the first mask_signals
  reldisp_by     \* history: the handler that made the last VT_RELDISP ioctl

lockVars == <<lk_state, sigmask, osig, handler, o_lock_all, reldisp, auth_st,
              auth_status, other_st, chld_pending, die_wait, terminal_restored,
              mask_calls, restore_calls, pre_mask, reldisp_by>>

\* ====================================== process.c: ensure_death, wait_for_death
VARIABLES
  ed_pc,         \* the caller's position in ensure_death and wait_for_death
  ed_call,       \* how many calls of ensure_death on this pid have started
  ed_first,      \* what the initial waitpid(pid, &status, WNOHANG) returned, this call
  ed_reaped,     \* a waitpid of this call returned pid
  ed_was_child,  \* history: pid was a child of the caller when this call started
  ed_sent,       \* history: the signals this call sent with kill(), in order
  k_st,          \* the process pid: "running", "stopped", "zombie", "reaped", "notchild"
  k_ignores_term, \* it ignores SIGTERM
  k_sigs,        \* the signals pending for it
  wfd_result,    \* wait_for_death's bool result
  alrm_handler,  \* the disposition of SIGALRM
  itimer,        \* ITIMER_REAL: "off", "caller" (the caller's own) or "wfd" (500 ms)
  wfd_oldact,    \* struct sigaction oldact
  wfd_otimer,    \* struct itimerval otimer
  pre_alrm,      \* history: the SIGALRM disposition when wait_for_death was called
  pre_itimer     \* history: the timer when wait_for_death was called

deathVars == <<ed_pc, ed_call, ed_first, ed_reaped, ed_was_child, ed_sent, k_st,
               k_ignores_term, k_sigs, wfd_result, alrm_handler, itimer,
               wfd_oldact, wfd_otimer, pre_alrm, pre_itimer>>

\* ================================================= process.c: create_child
VARIABLES
  cc_pc,         \* the parent's position in create_child
  child,         \* struct child_process: stdin_fd, stdout_fd, stderr_fd, pid
  in_child,      \* history: the descriptor as the caller passed it
  use_function,  \* child->function != NULL
  pfd,           \* the parent's descriptor table: fd -> what it refers to
  in_pfd,        \* history: the parent's descriptor table at the call
  stdin_pipe,    \* int stdin_pipe[2]
  stdout_pipe,   \* int stdout_pipe[2]
  stderr_pipe,   \* int stderr_pipe[3], of which [0] and [1] are used
  opened,        \* history: the descriptors pipe() returned during the call
  kid_pc,        \* the forked child's position, "none" while there is no child
  kid_fd,        \* the forked child's descriptor table
  kid_devnull,   \* static int devnull_fd, in the child
  kid_euid,      \* the child's effective user: "real" or "elevated"
  kid_egid       \* the child's effective group: "real" or "elevated"

childVars == <<cc_pc, child, in_child, use_function, pfd, in_pfd, stdin_pipe,
               stdout_pipe, stderr_pipe, opened, kid_pc, kid_fd, kid_devnull,
               kid_euid, kid_egid>>

\* ======================================================= auth-pam.c: auth
VARIABLES
  a_pc,            \* the position in auth
  a_slot,          \* the caller's GError **error: "NULL", "unset" or "set"
  error,           \* *error: "NULL" or the code of the error stored there
  error_sets,      \* history: how often auth has stored an error in *error
  pamh,            \* pam_handle_t *pamh: "unset", "NULL" or "valid"
  pam_status,      \* int pam_status
  pam_end_status,  \* int pam_end_status
  conv_data_error, \* conv_data.error: "NULL" or the code of the prompt's error
  conv_calls,      \* history: how often PAM has called conversation
  conv_ret,        \* history: what the last call of conversation returned
  a_failed_at,     \* history: the PAM call whose failure auth has seen
  a_result,        \* the value auth returned
  g_assert_on      \* the build keeps g_assert (G_DISABLE_ASSERT not defined)

authVars == <<a_pc, a_slot, error, error_sets, pamh, pam_status, pam_end_status,
              conv_data_error, conv_calls, conv_ret, a_failed_at, a_result,
              g_assert_on>>

vars == <<tsortVars, lockVars, deathVars, childVars, authVars>>

\* What the operations of one subsystem leave alone.
TsortFrame == UNCHANGED <<lockVars, deathVars, childVars, authVars>>
LockFrame == UNCHANGED <<tsortVars, deathVars, childVars, authVars>>
DeathFrame == UNCHANGED <<tsortVars, lockVars, childVars, authVars>>
ChildFrame == UNCHANGED <<tsortVars, lockVars, deathVars, authVars>>
AuthFrame == UNCHANGED <<tsortVars, lockVars, deathVars, childVars>>

\* ============================================================== tsort.h
NodeIds == 1..MaxNodes
NoEdge == [id |-> 0, predecessor |-> 0, successor |-> 0]

\* struct Edge: a heap object, compared by address (id) inside the edge list.
Edge(i, p, s) == [id |-> i, predecessor |-> p, successor |-> s]

\* std::list<T>::remove(value): erase every element equal to value.
ListRemove(list, value) == SelectSeq(list, LAMBDA x : x # value)

\* is_zero: true iff no edge has the node as its successor.
is_zero(node, es) == \A i \in 1..Len(es) : es[i].successor # node

\* get_zeros: copy the node list, then for each edge in order, while the copy is
\* not empty, remove the edge's successor from it.
RECURSIVE get_zeros_loop(_, _, _)
get_zeros_loop(zs, es, i) ==
  IF zs = <<>> \/ i > Len(es) THEN zs
  ELSE get_zeros_loop(ListRemove(zs, es[i].successor), es, i + 1)

get_zeros(ns, es) == get_zeros_loop(ns, es, 1)

\* A queue served from its back instead of its front.
zeros_pop_back(zs) == [front |-> zs[Len(zs)], rest |-> SubSeq(zs, 1, Len(zs) - 1)]

\* zeros->front(); zeros->pop_front(): the queue is served from its front.
zeros_pop(zs) == [front |-> Head(zs), rest |-> Tail(zs)]

\* What a read through the iterator can do once edges.remove(*it) has erased
\* the node it points to (the iterator is never reassigned): the process dies
\* ("crash"), the erased node still reads as linked and the loop goes on with
\* the element that followed it ("advance"), or the erased node still reads as
\* the current element and the same edge is seen again ("reread").
DanglingOutcomes == {"crash", "advance", "reread"}

\* The graphs tsort is called with: unique nodes, listed in ascending or in
\* descending order of their names, and up to MaxEdges edges between node
\* names, some of which may not be in the list.
NodeLists ==
  {[i \in 1..n |-> i] : n \in 0..MaxNodes} \cup {[i \in 1..n |-> n + 1 - i] : n \in 0..MaxNodes}
EdgeLists ==
  UNION {{[i \in 1..n |-> Edge(i, f[i][1], f[i][2])] :
            f \in [1..n -> NodeIds \X NodeIds]} : n \in 0..MaxEdges}

TsortInit ==
  /\ nodes \in NodeLists
  /\ edges \in EdgeLists
  /\ zeros = <<>>
  /\ sorted_nodes = <<>>
  /\ zero = 0
  /\ it = [idx |-> 0, stale |-> NoEdge]
  /\ result = FALSE
  /\ tpc = "start"
  /\ run = 1
  /\ in_nodes = nodes
  /\ in_edges = edges
  /\ run_edges = <<>>
  /\ readyLog = <<>>

TsortIdle ==
  /\ nodes = <<>>
  /\ edges = <<>>
  /\ zeros = <<>>
  /\ sorted_nodes = <<>>
  /\ zero = 0
  /\ it = [idx |-> 0, stale |-> NoEdge]
  /\ result = FALSE
  /\ tpc = "start"
  /\ run = 1
  /\ in_nodes = <<>>
  /\ in_edges = <<>>
  /\ run_edges = <<>>
  /\ readyLog = <<>>

\* tsort, lines 55-56: the working lists.
tsort_begin ==
  /\ tpc = "start"
  /\ sorted_nodes' = <<>>
  /\ zeros' = get_zeros(nodes, edges)
  /\ readyLog' = get_zeros(nodes, edges)
  /\ tpc' = "while"
  /\ UNCHANGED <<nodes, edges, zero, it, result, run, in_nodes, in_edges, run_edges>>
  /\ TsortFrame

\* tsort, lines 59-66: the while test, the pop and the for loop's start.
tsort_while ==
  /\ tpc = "while"
  /\ IF zeros = <<>>
     THEN /\ tpc' = "return"
          /\ UNCHANGED <<zeros, sorted_nodes, zero, it>>
     ELSE /\ zero' = zeros_pop(zeros).front
          /\ zeros' = zeros_pop(zeros).rest
          /\ sorted_nodes' = Append(sorted_nodes, zeros_pop(zeros).front)
          /\ it' = [idx |-> 1, stale |-> NoEdge]
          /\ tpc' = "for"
  /\ UNCHANGED <<nodes, edges, result, run, in_nodes, in_edges, run_edges, readyLog>>
  /\ TsortFrame

\* tsort, lines 65-78: one turn of the for loop.
tsort_for ==
  /\ tpc = "for"
  /\ IF it.stale = NoEdge /\ it.idx > Len(edges)
     THEN \* it == edges.end()
          /\ tpc' = "while"
          /\ UNCHANGED <<edges, zeros, it, readyLog>>
     ELSE LET e == IF it.stale # NoEdge THEN it.stale ELSE edges[it.idx]
              left == ListRemove(edges, e)
              pushed == IF is_zero(e.successor, left)
                        THEN Append(zeros, e.successor) ELSE zeros
              logged == IF is_zero(e.successor, left)
                        THEN Append(readyLog, e.successor) ELSE readyLog
          IN IF e.predecessor # zero
             THEN /\ it' = [idx |-> it.idx + 1, stale |-> NoEdge]
                  /\ tpc' = "for"
                  /\ UNCHANGED <<edges, zeros, readyLog>>
             ELSE \* edges.remove(*it) erases the node under it; line 73 on
                  \* read through the dangling iterator.
                  /\ edges' = left
                  /\ \E o \in DanglingOutcomes :
                       \/ /\ o = "crash"
                          /\ tpc' = "crashed"
                          /\ UNCHANGED <<zeros, it, readyLog>>
                       \/ /\ o = "advance"
                          /\ zeros' = pushed
                          /\ readyLog' = logged
                          /\ it' = [idx |-> it.idx, stale |-> NoEdge]
                          /\ tpc' = "for"
                       \/ /\ o = "reread"
                          /\ Len(pushed) <= MaxZeros
                          /\ zeros' = pushed
                          /\ readyLog' = logged
                          /\ it' = [idx |-> it.idx, stale |-> e]
                          /\ tpc' = "for"
  /\ UNCHANGED <<nodes, sorted_nodes, zero, result, run, in_nodes, in_edges, run_edges>>
  /\ TsortFrame

\* tsort, lines 81-87: the result, and the node list replaced on success only.
tsort_return ==
  /\ tpc = "return"
  /\ result' = (edges = <<>>)
  /\ nodes' = IF edges = <<>> THEN sorted_nodes ELSE nodes
  /\ tpc' = "done"
  /\ UNCHANGED <<edges, zeros, sorted_nodes, zero, it, run, in_nodes, in_edges,
                 run_edges, readyLog>>
  /\ TsortFrame

\* The caller runs tsort once more on what a failed call left behind.
tsort_rerun ==
  /\ tpc = "done"
  /\ ~result
  /\ run = 1
  /\ run' = 2
  /\ run_edges' = edges
  /\ tpc' = "start"
  /\ UNCHANGED <<nodes, edges, zeros, sorted_nodes, zero, it, result, in_nodes,
                 in_edges, readyLog>>
  /\ TsortFrame


\* ============================================================ signals.c
VT_ACKACQ == 2

SwitchSignals == {"SIGUSR1", "SIGUSR2"}
JobSignals == {"SIGTSTP", "SIGTTIN", "SIGTTOU", "SIGHUP"}
\* The signals mask_signals names, and SIGINT for every signal it does not name.
Signals == SwitchSignals \cup JobSignals \cup {"SIGCHLD", "SIGINT"}

\* The signal masks the process is started with: any combination of blocked
\* signals among one that mask_signals unblocks (SIGUSR1), two that it blocks
\* (SIGTSTP, SIGHUP), SIGCHLD, and one that it leaves alone (SIGINT).
StartMasks == SUBSET {"SIGUSR1", "SIGTSTP", "SIGHUP", "SIGCHLD", "SIGINT"}

\* The dispositions the process is started with.
StartHandlers == [s \in Signals |-> "SIG_DFL"]

LockInit ==
  /\ lk_state = "prelock"
  /\ sigmask \in StartMasks
  /\ osig = {}
  /\ handler = StartHandlers
  /\ o_lock_all \in BOOLEAN
  /\ reldisp = -1
  /\ auth_st = "none"
  /\ auth_status = "none"
  /\ other_st = "none"
  /\ chld_pending = FALSE
  /\ die_wait = "none"
  /\ terminal_restored = FALSE
  /\ mask_calls = 0
  /\ restore_calls = 0
  /\ pre_mask = sigmask
  /\ reldisp_by = "none"

LockIdle ==
  /\ lk_state = "prelock"
  /\ sigmask = {}
  /\ osig = {}
  /\ handler = [s \in Signals |-> "SIG_DFL"]
  /\ o_lock_all = FALSE
  /\ reldisp = -1
  /\ auth_st = "none"
  /\ auth_status = "none"
  /\ other_st = "none"
  /\ chld_pending = FALSE
  /\ die_wait = "none"
  /\ terminal_restored = FALSE
  /\ mask_calls = 0
  /\ restore_calls = 0
  /\ pre_mask = {}
  /\ reldisp_by = "none"

\* release_vt with its two answers exchanged.
release_vt_arg_swapped(lock_all) == IF ~lock_all THEN 0 ELSE 1

\* release_vt, lines 47-52: the VT_RELDISP argument.
release_vt_arg(lock_all) == IF ~lock_all THEN 1 ELSE 0

\* A mask_signals that leaves the blocked status of SIGCHLD as it finds it.
mask_signals_set_keeps_sigchld(cur) ==
  (cur \ {"SIGUSR1", "SIGUSR2"}) \cup {"SIGTSTP", "SIGTTIN", "SIGTTOU", "SIGHUP"}

\* mask_signals, lines 96-107: the mask it installs, from the current one.
mask_signals_set(cur) ==
  ((cur \ {"SIGUSR1", "SIGUSR2"}) \cup {"SIGTSTP", "SIGTTIN", "SIGTTOU", "SIGHUP"})
    \ {"SIGCHLD"}

\* mask_signals, lines 110-127: the handlers it installs.
mask_signals_handlers(h) ==
  [s \in Signals |->
     CASE s = "SIGUSR1" -> "release_vt"
       [] s = "SIGUSR2" -> "acquire_vt"
       [] s \in JobSignals -> "signal_ignorer"
       [] s = "SIGCHLD" -> "signal_die"
       [] OTHER -> h[s]]

\* Whether a SIGCHLD that is generated now is kept for delivery: the kernel
\* drops it at once when it is not blocked and its disposition is the default
\* (ignore); a blocked signal stays pending whatever its disposition.
sigchld_kept == "SIGCHLD" \in sigmask \/ handler["SIGCHLD"] # "SIG_DFL"

\* mask_signals, lines 87-130.  A SIGCHLD that was pending and blocked is
\* delivered when line 107 unblocks it, to the disposition in force then: the
\* default and signal_ignorer consume it before line 128 installs signal_die.
mask_signals ==
  /\ lk_state \in {"prelock", "locked"}
  /\ mask_calls < MaxMaskCalls
  /\ osig' = sigmask
  /\ sigmask' = mask_signals_set(sigmask)
  /\ handler' = mask_signals_handlers(handler)
  /\ chld_pending' = IF "SIGCHLD" \in sigmask /\ handler["SIGCHLD"] \in {"SIG_DFL", "signal_ignorer"}
                     THEN FALSE ELSE chld_pending
  /\ lk_state' = "locked"
  /\ mask_calls' = mask_calls + 1
  /\ UNCHANGED <<o_lock_all, reldisp, reldisp_by, auth_st, auth_status, other_st,
                 die_wait, terminal_restored, restore_calls, pre_mask>>
  /\ LockFrame

\* ignore_sigchld, lines 133-142.
ignore_sigchld ==
  /\ lk_state = "locked"
  /\ handler' = [handler EXCEPT !["SIGCHLD"] = "signal_ignorer"]
  /\ UNCHANGED <<lk_state, sigmask, osig, o_lock_all, reldisp, reldisp_by, auth_st, auth_status,
                 other_st, chld_pending, die_wait, terminal_restored, mask_calls,
                 restore_calls, pre_mask>>
  /\ LockFrame

\* restore_signals, lines 146-153.
restore_signals ==
  /\ lk_state = "locked"
  /\ restore_calls = 0
  /\ sigmask' = osig
  /\ restore_calls' = restore_calls + 1
  /\ UNCHANGED <<lk_state, osig, handler, o_lock_all, reldisp, reldisp_by, auth_st, auth_status,
                 other_st, chld_pending, die_wait, terminal_restored, mask_calls,
                 pre_mask>>
  /\ LockFrame

\* release_vt, lines 46-52, run by a delivery of SIGUSR1.
release_vt ==
  /\ lk_state = "locked"
  /\ "SIGUSR1" \notin sigmask
  /\ handler["SIGUSR1"] = "release_vt"
  /\ reldisp' = release_vt_arg(o_lock_all)
  /\ reldisp_by' = "release_vt"
  /\ UNCHANGED <<lk_state, sigmask, osig, handler, o_lock_all, auth_st, auth_status,
                 other_st, chld_pending, die_wait, terminal_restored, mask_calls,
                 restore_calls, pre_mask>>
  /\ LockFrame

\* acquire_vt, lines 56-61, run by a delivery of SIGUSR2.
acquire_vt ==
  /\ lk_state = "locked"
  /\ "SIGUSR2" \notin sigmask
  /\ handler["SIGUSR2"] = "acquire_vt"
  /\ reldisp' = VT_ACKACQ
  /\ reldisp_by' = "acquire_vt"
  /\ UNCHANGED <<lk_state, sigmask, osig, handler, o_lock_all, auth_st, auth_status,
                 other_st, chld_pending, die_wait, terminal_restored, mask_calls,
                 restore_calls, pre_mask>>
  /\ LockFrame

\* signal_ignorer, lines 65-67, run by a delivery of an unblocked job-control
\* or hangup signal.
signal_ignorer ==
  /\ lk_state = "locked"
  /\ \E s \in JobSignals : s \notin sigmask /\ handler[s] = "signal_ignorer"
  /\ UNCHANGED <<lk_state, sigmask, osig, handler, o_lock_all, reldisp, reldisp_by, auth_st,
                 auth_status, other_st, chld_pending, die_wait, terminal_restored,
                 mask_calls, restore_calls, pre_mask>>
  /\ LockFrame

\* The locking process starts its authentication child.
start_auth_child ==
  /\ lk_state = "locked"
  /\ auth_st = "none"
  /\ auth_st' = "running"
  /\ UNCHANGED <<lk_state, sigmask, osig, handler, o_lock_all, reldisp, reldisp_by, auth_status,
                 other_st, chld_pending, die_wait, terminal_restored, mask_calls,
                 restore_calls, pre_mask>>
  /\ LockFrame

\* The locking process has another child (a helper that is not the
\* authentication child).
start_other_child ==
  /\ lk_state \in {"prelock", "locked"}
  /\ other_st = "none"
  /\ other_st' = "running"
  /\ UNCHANGED <<lk_state, sigmask, osig, handler, o_lock_all, reldisp, reldisp_by, auth_st,
                 auth_status, chld_pending, die_wait, terminal_restored, mask_calls,
                 restore_calls, pre_mask>>
  /\ LockFrame

\* The authentication child ends: exit status 0 after a successful attempt, a
\* nonzero status after a failed, timed-out or aborted one, or death by a signal.
auth_child_ends ==
  /\ lk_state \in {"prelock", "locked"}
  /\ auth_st = "running"
  /\ \E how \in {"success", "failure", "signaled"} : auth_status' = how
  /\ auth_st' = "zombie"
  /\ chld_pending' = (chld_pending \/ sigchld_kept)
  /\ UNCHANGED <<lk_state, sigmask, osig, handler, o_lock_all, reldisp, reldisp_by, other_st,
                 die_wait, terminal_restored, mask_calls, restore_calls, pre_mask>>
  /\ LockFrame

other_child_ends ==
  /\ lk_state \in {"prelock", "locked"}
  /\ other_st = "running"
  /\ other_st' = "zombie"
  /\ chld_pending' = (chld_pending \/ sigchld_kept)
  /\ UNCHANGED <<lk_state, sigmask, osig, handler, o_lock_all, reldisp, reldisp_by, auth_st,
                 auth_status, die_wait, terminal_restored, mask_calls, restore_calls,
                 pre_mask>>
  /\ LockFrame

\* SIGCHLD raised with no child having exited: a child stopped or continued
\* (sa_flags is 0, so SA_NOCLDSTOP is not set), or kill(2) from another process.
sigchld_raised ==
  /\ lk_state \in {"prelock", "locked"}
  /\ ~chld_pending
  /\ sigchld_kept
  /\ chld_pending' = TRUE
  /\ UNCHANGED <<lk_state, sigmask, osig, handler, o_lock_all, reldisp, reldisp_by, auth_st,
                 auth_status, other_st, die_wait, terminal_restored, mask_calls,
                 restore_calls, pre_mask>>
  /\ LockFrame

\* waitpid(-1, NULL, WNOHANG): the children it can reap now, 0 when children
\* exist and none has exited, -1 when the caller has no children.
waitpid_any_results ==
  LET zombies == (IF auth_st = "zombie" THEN {"auth"} ELSE {})
                   \cup (IF other_st = "zombie" THEN {"other"} ELSE {})
  IN IF zombies # {} THEN zombies
     ELSE IF auth_st = "running" \/ other_st = "running" THEN {"0"}
     ELSE {"-1"}

\* signal_die, line 74: if (waitpid(-1, NULL, WNOHANG)).
signal_die_exits(r) == r # "0"

\* signal_die, lines 72-81, run by a delivery of SIGCHLD.
signal_die ==
  /\ lk_state = "locked"
  /\ chld_pending
  /\ "SIGCHLD" \notin sigmask
  /\ handler["SIGCHLD"] = "signal_die"
  /\ chld_pending' = FALSE
  /\ \E r \in waitpid_any_results :
       /\ die_wait' = r
       /\ auth_st' = IF r = "auth" THEN "reaped" ELSE auth_st
       /\ other_st' = IF r = "other" THEN "reaped" ELSE other_st
       /\ IF signal_die_exits(r)
          THEN terminal_restored' = TRUE /\ lk_state' = "exited"
          ELSE UNCHANGED <<terminal_restored, lk_state>>
  /\ UNCHANGED <<sigmask, osig, handler, o_lock_all, reldisp, reldisp_by, auth_status,
                 mask_calls, restore_calls, pre_mask>>
  /\ LockFrame

\* A delivery of SIGCHLD to a handler other than signal_die: signal_ignorer
\* returns, and the default disposition discards the signal.
sigchld_ignored ==
  /\ lk_state \in {"prelock", "locked"}
  /\ chld_pending
  /\ "SIGCHLD" \notin sigmask
  /\ handler["SIGCHLD"] \in {"signal_ignorer", "SIG_DFL"}
  /\ chld_pending' = FALSE
  /\ UNCHANGED <<lk_state, sigmask, osig, handler, o_lock_all, reldisp, reldisp_by, auth_st,
                 auth_status, other_st, die_wait, terminal_restored, mask_calls,
                 restore_calls, pre_mask>>
  /\ LockFrame

\* ====================================== process.c: ensure_death, wait_for_death
DeathInit ==
  /\ ed_pc = "idle"
  /\ ed_call = 0
  /\ ed_first = "none"
  /\ ed_reaped = FALSE
  /\ ed_was_child = FALSE
  /\ ed_sent = <<>>
  /\ k_st \in {"running", "stopped", "zombie", "notchild"}
  /\ k_ignores_term \in BOOLEAN
  /\ k_sigs = {}
  /\ wfd_result = FALSE
  /\ alrm_handler \in {"SIG_DFL", "caller_handler"}
  /\ itimer \in {"off", "caller"}
  /\ wfd_oldact = "unset"
  /\ wfd_otimer = "unset"
  /\ pre_alrm = "unset"
  /\ pre_itimer = "unset"

DeathIdle ==
  /\ ed_pc = "idle"
  /\ ed_call = 0
  /\ ed_first = "none"
  /\ ed_reaped = FALSE
  /\ ed_was_child = FALSE
  /\ ed_sent = <<>>
  /\ k_st = "notchild"
  /\ k_ignores_term = FALSE
  /\ k_sigs = {}
  /\ wfd_result = FALSE
  /\ alrm_handler = "SIG_DFL"
  /\ itimer = "off"
  /\ wfd_oldact = "unset"
  /\ wfd_otimer = "unset"
  /\ pre_alrm = "unset"
  /\ pre_itimer = "unset"

IsChild == k_st \in {"running", "stopped", "zombie"}

\* kill(pid, sig): the signal becomes pending for a live process; a zombie, a
\* reaped process and a process that is not there take nothing.
kill(sig) == IF k_st \in {"running", "stopped"} THEN k_sigs \cup {sig} ELSE k_sigs

\* The caller calls ensure_death(pid), for the first time or once more after
\* the previous call returned.
ensure_death_call ==
  /\ ed_pc \in {"idle", "returned"}
  /\ ed_call < MaxCalls
  /\ ed_call' = ed_call + 1
  /\ ed_first' = "none"
  /\ ed_reaped' = FALSE
  /\ ed_was_child' = IsChild
  /\ ed_sent' = <<>>
  /\ ed_pc' = "wnohang"
  /\ UNCHANGED <<k_st, k_ignores_term, k_sigs, wfd_result, alrm_handler, itimer,
                 wfd_oldact, wfd_otimer, pre_alrm, pre_itimer>>
  /\ DeathFrame

\* A switch that goes on to SIGTERM whatever the first waitpid returned.
ensure_death_after_first_always_kills(r) == "sigterm"

\* ensure_death, lines 78-88: where the switch on the first waitpid's result leads.
ensure_death_after_first(r) ==
  CASE r = "-1" -> "returned"
    [] r = "0" -> "sigterm"
    [] OTHER -> "returned"

\* ensure_death, lines 78-88: waitpid(pid, &status, WNOHANG) and the switch.
ensure_death_wnohang ==
  /\ ed_pc = "wnohang"
  /\ LET r == CASE k_st \in {"notchild", "reaped"} -> "-1"
                [] k_st = "zombie" -> "pid"
                [] OTHER -> "0"
     IN /\ ed_first' = r
        /\ k_st' = IF r = "pid" THEN "reaped" ELSE k_st
        /\ ed_reaped' = (r = "pid")
        /\ ed_pc' = ensure_death_after_first(r)
  /\ UNCHANGED <<ed_call, ed_was_child, ed_sent, k_ignores_term, k_sigs, wfd_result,
                 alrm_handler, itimer, wfd_oldact, wfd_otimer, pre_alrm, pre_itimer>>
  /\ DeathFrame

\* ensure_death, line 91: kill(pid, SIGTERM), then the call of wait_for_death.
ensure_death_sigterm ==
  /\ ed_pc = "sigterm"
  /\ k_sigs' = kill("SIGTERM")
  /\ ed_sent' = Append(ed_sent, "SIGTERM")
  /\ pre_alrm' = alrm_handler
  /\ pre_itimer' = itimer
  /\ ed_pc' = "wfd_sigaction"
  /\ UNCHANGED <<ed_call, ed_first, ed_reaped, ed_was_child, k_st, k_ignores_term,
                 wfd_result, alrm_handler, itimer, wfd_oldact, wfd_otimer>>
  /\ DeathFrame

\* A setitimer that disarms the timer whatever value it is given.
setitimer_disarms(new_value) == "off"

\* setitimer(ITIMER_REAL, &new_value, ...): the timer in force afterwards.
setitimer(new_value) == new_value

\* wait_for_death, lines 43-46: sigaction(SIGALRM, &act, &oldact).
wfd_sigaction ==
  /\ ed_pc = "wfd_sigaction"
  /\ wfd_oldact' = alrm_handler
  /\ alrm_handler' = "ignore_sigalarm"
  /\ ed_pc' = "wfd_setitimer"
  /\ UNCHANGED <<ed_call, ed_first, ed_reaped, ed_was_child, ed_sent, k_st,
                 k_ignores_term, k_sigs, wfd_result, itimer, wfd_otimer, pre_alrm,
                 pre_itimer>>
  /\ DeathFrame

\* wait_for_death, lines 49-56: setitimer(ITIMER_REAL, &timer, &otimer).
wfd_setitimer ==
  /\ ed_pc = "wfd_setitimer"
  /\ wfd_otimer' = itimer
  /\ itimer' = setitimer("wfd")
  /\ ed_pc' = "wfd_call_waitpid"
  /\ UNCHANGED <<ed_call, ed_first, ed_reaped, ed_was_child, ed_sent, k_st,
                 k_ignores_term, k_sigs, wfd_result, alrm_handler, wfd_oldact,
                 pre_alrm, pre_itimer>>
  /\ DeathFrame

\* wait_for_death, line 59: the process enters waitpid(pid, &status, 0).
wfd_enter_waitpid ==
  /\ ed_pc = "wfd_call_waitpid"
  /\ ed_pc' = "wfd_waitpid"
  /\ UNCHANGED <<ed_call, ed_first, ed_reaped, ed_was_child, ed_sent, k_st,
                 k_ignores_term, k_sigs, wfd_result, alrm_handler, itimer,
                 wfd_oldact, wfd_otimer, pre_alrm, pre_itimer>>
  /\ DeathFrame

\* wait_for_death, line 59: waitpid returns pid, the child having exited.
wfd_waitpid_reaps ==
  /\ ed_pc = "wfd_waitpid"
  /\ k_st = "zombie"
  /\ k_st' = "reaped"
  /\ ed_reaped' = TRUE
  /\ wfd_result' = TRUE
  /\ ed_pc' = "wfd_restore_timer"
  /\ UNCHANGED <<ed_call, ed_first, ed_was_child, ed_sent, k_ignores_term, k_sigs,
                 alrm_handler, itimer, wfd_oldact, wfd_otimer, pre_alrm, pre_itimer>>
  /\ DeathFrame

\* The 500 ms timer expires: SIGALRM runs ignore_sigalarm, and a waitpid the
\* process is blocked in returns -1 (EINTR).
wfd_timer_fires ==
  /\ itimer = "wfd"
  /\ ed_pc \in {"wfd_call_waitpid", "wfd_waitpid", "wfd_restore_timer"}
  /\ itimer' = "off"
  /\ IF ed_pc = "wfd_waitpid"
     THEN wfd_result' = FALSE /\ ed_pc' = "wfd_restore_timer"
     ELSE UNCHANGED <<wfd_result, ed_pc>>
  /\ UNCHANGED <<ed_call, ed_first, ed_reaped, ed_was_child, ed_sent, k_st,
                 k_ignores_term, k_sigs, alrm_handler, wfd_oldact, wfd_otimer,
                 pre_alrm, pre_itimer>>
  /\ DeathFrame

\* wait_for_death, line 65: setitimer(ITIMER_REAL, &otimer, NULL).
wfd_restore_timer ==
  /\ ed_pc = "wfd_restore_timer"
  /\ itimer' = setitimer(wfd_otimer)
  /\ ed_pc' = "wfd_restore_handler"
  /\ UNCHANGED <<ed_call, ed_first, ed_reaped, ed_was_child, ed_sent, k_st,
                 k_ignores_term, k_sigs, wfd_result, alrm_handler, wfd_oldact,
                 wfd_otimer, pre_alrm, pre_itimer>>
  /\ DeathFrame

\* wait_for_death, lines 68-70, and ensure_death, lines 94-95: the handler is
\* restored and the result tested.
wfd_restore_handler ==
  /\ ed_pc = "wfd_restore_handler"
  /\ alrm_handler' = wfd_oldact
  /\ ed_pc' = IF wfd_result THEN "returned" ELSE "sigkill"
  /\ UNCHANGED <<ed_call, ed_first, ed_reaped, ed_was_child, ed_sent, k_st,
                 k_ignores_term, k_sigs, wfd_result, itimer, wfd_oldact, wfd_otimer,
                 pre_alrm, pre_itimer>>
  /\ DeathFrame

\* ensure_death, line 98: kill(pid, SIGKILL).
ensure_death_sigkill ==
  /\ ed_pc = "sigkill"
  /\ k_sigs' = kill("SIGKILL")
  /\ ed_sent' = Append(ed_sent, "SIGKILL")
  /\ ed_pc' = "sigcont"
  /\ UNCHANGED <<ed_call, ed_first, ed_reaped, ed_was_child, k_st, k_ignores_term,
                 wfd_result, alrm_handler, itimer, wfd_oldact, wfd_otimer, pre_alrm,
                 pre_itimer>>
  /\ DeathFrame

\* ensure_death, line 100: kill(pid, SIGCONT).
ensure_death_sigcont ==
  /\ ed_pc = "sigcont"
  /\ k_sigs' = kill("SIGCONT")
  /\ ed_sent' = Append(ed_sent, "SIGCONT")
  /\ ed_pc' = "final_waitpid"
  /\ UNCHANGED <<ed_call, ed_first, ed_reaped, ed_was_child, k_st, k_ignores_term,
                 wfd_result, alrm_handler, itimer, wfd_oldact, wfd_otimer, pre_alrm,
                 pre_itimer>>
  /\ DeathFrame

\* ensure_death, line 103: waitpid(pid, &status, 0) returns pid.
ensure_death_final_reaps ==
  /\ ed_pc = "final_waitpid"
  /\ k_st = "zombie"
  /\ k_st' = "reaped"
  /\ ed_reaped' = TRUE
  /\ ed_pc' = "returned"
  /\ UNCHANGED <<ed_call, ed_first, ed_was_child, ed_sent, k_ignores_term, k_sigs,
                 wfd_result, alrm_handler, itimer, wfd_oldact, wfd_otimer, pre_alrm,
                 pre_itimer>>
  /\ DeathFrame

\* Where a blocking waitpid(pid, &status, 0) goes on when a signal handler
\* installed without SA_RESTART (signals.c, line 112: sa_flags = 0) has run
\* during it: the call returns -1 (EINTR), which line 59 takes as "not dead"
\* and line 103 discards.
interrupted(pc) == IF pc = "wfd_waitpid" THEN "wfd_restore_timer" ELSE "returned"

\* A signal other than the timer's SIGALRM is delivered to the caller while it
\* is blocked in waitpid and the child has not exited yet, and its handler
\* returns.
caller_signal ==
  /\ ed_pc \in {"wfd_waitpid", "final_waitpid"}
  /\ k_st \in {"running", "stopped"}
  /\ ed_pc' = interrupted(ed_pc)
  /\ wfd_result' = IF ed_pc = "wfd_waitpid" THEN FALSE ELSE wfd_result
  /\ UNCHANGED <<ed_call, ed_first, ed_reaped, ed_was_child, ed_sent, k_st,
                 k_ignores_term, k_sigs, alrm_handler, itimer, wfd_oldact,
                 wfd_otimer, pre_alrm, pre_itimer>>
  /\ DeathFrame

\* The child exits of its own accord.
child_exits ==
  /\ k_st = "running"
  /\ ed_pc # "idle"
  /\ k_st' = "zombie"
  /\ k_sigs' = {}
  /\ UNCHANGED <<ed_pc, ed_call, ed_first, ed_reaped, ed_was_child, ed_sent,
                 k_ignores_term, wfd_result, alrm_handler, itimer, wfd_oldact,
                 wfd_otimer, pre_alrm, pre_itimer>>
  /\ DeathFrame

\* The child takes a pending signal: SIGKILL ends it, stopped or not; SIGCONT
\* resumes it; SIGTERM ends a running child that does not ignore it.
child_takes_signal ==
  /\ k_st \in {"running", "stopped"}
  /\ \E sig \in k_sigs :
       \/ /\ sig = "SIGKILL"
          /\ k_st' = "zombie"
          /\ k_sigs' = {}
       \/ /\ sig = "SIGCONT"
          /\ k_st' = "running"
          /\ k_sigs' = k_sigs \ {"SIGCONT"}
       \/ /\ sig = "SIGTERM"
          /\ k_st = "running"
          /\ k_st' = IF k_ignores_term THEN "running" ELSE "zombie"
          /\ k_sigs' = IF k_ignores_term THEN k_sigs \ {"SIGTERM"} ELSE {}
  /\ UNCHANGED <<ed_pc, ed_call, ed_first, ed_reaped, ed_was_child, ed_sent,
                 k_ignores_term, wfd_result, alrm_handler, itimer, wfd_oldact,
                 wfd_otimer, pre_alrm, pre_itimer>>
  /\ DeathFrame

\* ================================================= process.c: create_child
Fds == 0..MaxFd
Streams == {"stdin", "stdout", "stderr"}

\* A stream's field of struct child_process: one of the three redirection
\* macros, or a descriptor number (mode "fd").
NO_REDIRECT == [mode |-> "NO_REDIRECT", fd |-> -1]
REDIRECT_PIPE == [mode |-> "REDIRECT_PIPE", fd |-> -1]
REDIRECT_DEV_NULL == [mode |-> "REDIRECT_DEV_NULL", fd |-> -1]
Descriptor(n) == [mode |-> "fd", fd |-> n]

\* The descriptor table of a process that has its three standard streams on
\* the terminal and one more file open.
StartTable ==
  [i \in Fds |-> IF i \in {0, 1, 2} THEN "tty" ELSE IF i = 3 THEN "file" ELSE "closed"]

FieldValues == {NO_REDIRECT, REDIRECT_PIPE, REDIRECT_DEV_NULL, Descriptor(3)}

ChildInit ==
  /\ cc_pc = "stdin_pipe"
  /\ \E i \in FieldValues, o \in FieldValues, e \in FieldValues :
       child = [stdin_fd |-> i, stdout_fd |-> o, stderr_fd |-> e, pid |-> "unset"]
  /\ in_child = child
  /\ use_function \in BOOLEAN
  /\ pfd = StartTable
  /\ in_pfd = pfd
  /\ stdin_pipe = <<-1, -1>>
  /\ stdout_pipe = <<-1, -1>>
  /\ stderr_pipe = <<-1, -1>>
  /\ opened = {}
  /\ kid_pc = "none"
  /\ kid_fd = [i \in Fds |-> "closed"]
  /\ kid_devnull = -1
  /\ kid_euid \in {"real", "elevated"}
  /\ kid_egid \in {"real", "elevated"}

ChildIdle ==
  /\ cc_pc = "stdin_pipe"
  /\ child = [stdin_fd |-> NO_REDIRECT, stdout_fd |-> NO_REDIRECT,
              stderr_fd |-> NO_REDIRECT, pid |-> "unset"]
  /\ in_child = child
  /\ use_function = FALSE
  /\ pfd = StartTable
  /\ in_pfd = pfd
  /\ stdin_pipe = <<-1, -1>>
  /\ stdout_pipe = <<-1, -1>>
  /\ stderr_pipe = <<-1, -1>>
  /\ opened = {}
  /\ kid_pc = "none"
  /\ kid_fd = [i \in Fds |-> "closed"]
  /\ kid_devnull = -1
  /\ kid_euid = "real"
  /\ kid_egid = "real"

FreeFds(tab) == {i \in Fds : tab[i] = "closed"}
LowestFree(tab) == CHOOSE i \in FreeFds(tab) : \A j \in FreeFds(tab) : i <= j

\* pipe(): the two lowest unused descriptors, read end first.
pipe_fds(tab) ==
  LET r == LowestFree(tab)
      w == LowestFree([tab EXCEPT ![r] = "read end"])
  IN <<r, w>>

\* The table after a successful pipe(p) for the named stream.
pipe_open(tab, stream) ==
  LET p == pipe_fds(tab)
  IN [tab EXCEPT ![p[1]] = stream \o "_r", ![p[2]] = stream \o "_w"]

\* close(fd).
close(tab, fd) == IF fd \in Fds THEN [tab EXCEPT ![fd] = "closed"] ELSE tab

\* A cleanup that closes only the read end of a pipe.
close_pipe_read_end_only(tab, p) == close(tab, p[1])

\* create_child, lines 233-234, 239-240, 245-246: close(p[0]); close(p[1]).
close_pipe(tab, p) == close(close(tab, p[1]), p[2])

\* The parent keeping the read end of every pipe.
parent_end_always_read(stream, p) == [keep |-> p[1], drop |-> p[2]]

\* create_child, lines 208-227: the end of a stream's pipe the parent keeps
\* and the end it closes.
parent_end(stream, p) ==
  IF stream = "stdin" THEN [keep |-> p[2], drop |-> p[1]]
  ELSE [keep |-> p[1], drop |-> p[2]]

\* create_child, lines 151-154: the stdin pipe.
create_child_stdin_pipe ==
  /\ cc_pc = "stdin_pipe"
  /\ IF child.stdin_fd = REDIRECT_PIPE
     THEN \E ok \in BOOLEAN :
            IF ok /\ Cardinality(FreeFds(pfd)) >= 2
            THEN /\ stdin_pipe' = pipe_fds(pfd)
                 /\ pfd' = pipe_open(pfd, "stdin")
                 /\ opened' = opened \cup {pipe_fds(pfd)[1], pipe_fds(pfd)[2]}
                 /\ cc_pc' = "stdout_pipe"
            ELSE /\ cc_pc' = "ret_false"
                 /\ UNCHANGED <<stdin_pipe, pfd, opened>>
     ELSE /\ cc_pc' = "stdout_pipe"
          /\ UNCHANGED <<stdin_pipe, pfd, opened>>
  /\ UNCHANGED <<child, in_child, use_function, in_pfd, stdout_pipe, stderr_pipe,
                 kid_pc, kid_fd, kid_devnull, kid_euid, kid_egid>>
  /\ ChildFrame

\* create_child, lines 156-159: the stdout pipe.
create_child_stdout_pipe ==
  /\ cc_pc = "stdout_pipe"
  /\ IF child.stdout_fd = REDIRECT_PIPE
     THEN \E ok \in BOOLEAN :
            IF ok /\ Cardinality(FreeFds(pfd)) >= 2
            THEN /\ stdout_pipe' = pipe_fds(pfd)
                 /\ pfd' = pipe_open(pfd, "stdout")
                 /\ opened' = opened \cup {pipe_fds(pfd)[1], pipe_fds(pfd)[2]}
                 /\ cc_pc' = "stderr_pipe"
            ELSE /\ cc_pc' = "stdout_pipe_failed"
                 /\ UNCHANGED <<stdout_pipe, pfd, opened>>
     ELSE /\ cc_pc' = "stderr_pipe"
          /\ UNCHANGED <<stdout_pipe, pfd, opened>>
  /\ UNCHANGED <<child, in_child, use_function, in_pfd, stdin_pipe, stderr_pipe,
                 kid_pc, kid_fd, kid_devnull, kid_euid, kid_egid>>
  /\ ChildFrame

\* create_child, lines 161-164: the stderr pipe.
create_child_stderr_pipe ==
  /\ cc_pc = "stderr_pipe"
  /\ IF child.stderr_fd = REDIRECT_PIPE
     THEN \E ok \in BOOLEAN :
            IF ok /\ Cardinality(FreeFds(pfd)) >= 2
            THEN /\ stderr_pipe' = pipe_fds(pfd)
                 /\ pfd' = pipe_open(pfd, "stderr")
                 /\ opened' = opened \cup {pipe_fds(pfd)[1], pipe_fds(pfd)[2]}
                 /\ cc_pc' = "fork"
            ELSE /\ cc_pc' = "stderr_pipe_failed"
                 /\ UNCHANGED <<stderr_pipe, pfd, opened>>
     ELSE /\ cc_pc' = "fork"
          /\ UNCHANGED <<stderr_pipe, pfd, opened>>
  /\ UNCHANGED <<child, in_child, use_function, in_pfd, stdin_pipe, stdout_pipe,
                 kid_pc, kid_fd, kid_devnull, kid_euid, kid_egid>>
  /\ ChildFrame

\* create_child, lines 166 and 205-206: fork(); the child starts as a copy of
\* the parent, or there is no child and pid is -1.
create_child_fork ==
  /\ cc_pc = "fork"
  /\ \E ok \in BOOLEAN :
       IF ok
       THEN /\ child' = [child EXCEPT !.pid = "child"]
            /\ kid_pc' = "redirect"
            /\ kid_fd' = pfd
            /\ cc_pc' = "parent_stdin"
       ELSE /\ child' = [child EXCEPT !.pid = "-1"]
            /\ cc_pc' = "fork_failed"
            /\ UNCHANGED <<kid_pc, kid_fd>>
  /\ UNCHANGED <<in_child, use_function, pfd, in_pfd, stdin_pipe, stdout_pipe,
                 stderr_pipe, opened, kid_devnull, kid_euid, kid_egid>>
  /\ ChildFrame

\* create_child, lines 208-213: the parent's end of the stdin pipe.
create_child_parent_stdin ==
  /\ cc_pc = "parent_stdin"
  /\ IF child.stdin_fd = REDIRECT_PIPE
     THEN /\ child' = [child EXCEPT !.stdin_fd = Descriptor(parent_end("stdin", stdin_pipe).keep)]
          /\ pfd' = close(pfd, parent_end("stdin", stdin_pipe).drop)
     ELSE UNCHANGED <<child, pfd>>
  /\ cc_pc' = "parent_stdout"
  /\ UNCHANGED <<in_child, use_function, in_pfd, stdin_pipe, stdout_pipe,
                 stderr_pipe, opened, kid_pc, kid_fd, kid_devnull, kid_euid, kid_egid>>
  /\ ChildFrame

\* create_child, lines 215-220: the parent's end of the stdout pipe.
create_child_parent_stdout ==
  /\ cc_pc = "parent_stdout"
  /\ IF child.stdout_fd = REDIRECT_PIPE
     THEN /\ child' = [child EXCEPT !.stdout_fd = Descriptor(parent_end("stdout", stdout_pipe).keep)]
          /\ pfd' = close(pfd, parent_end("stdout", stdout_pipe).drop)
     ELSE UNCHANGED <<child, pfd>>
  /\ cc_pc' = "parent_stderr"
  /\ UNCHANGED <<in_child, use_function, in_pfd, stdin_pipe, stdout_pipe,
                 stderr_pipe, opened, kid_pc, kid_fd, kid_devnull, kid_euid, kid_egid>>
  /\ ChildFrame

\* create_child, lines 222-229: the parent's end of the stderr pipe; return true.
create_child_parent_stderr ==
  /\ cc_pc = "parent_stderr"
  /\ IF child.stderr_fd = REDIRECT_PIPE
     THEN /\ child' = [child EXCEPT !.stderr_fd = Descriptor(parent_end("stderr", stderr_pipe).keep)]
          /\ pfd' = close(pfd, parent_end("stderr", stderr_pipe).drop)
     ELSE UNCHANGED <<child, pfd>>
  /\ cc_pc' = "ret_true"
  /\ UNCHANGED <<in_child, use_function, in_pfd, stdin_pipe, stdout_pipe,
                 stderr_pipe, opened, kid_pc, kid_fd, kid_devnull, kid_euid, kid_egid>>
  /\ ChildFrame

\* create_child, lines 231-235: fork_failed.
create_child_fork_failed ==
  /\ cc_pc = "fork_failed"
  /\ pfd' = IF child.stderr_fd = REDIRECT_PIPE THEN close_pipe(pfd, stderr_pipe) ELSE pfd
  /\ cc_pc' = "stderr_pipe_failed"
  /\ UNCHANGED <<child, in_child, use_function, in_pfd, stdin_pipe, stdout_pipe,
                 stderr_pipe, opened, kid_pc, kid_fd, kid_devnull, kid_euid, kid_egid>>
  /\ ChildFrame

\* create_child, lines 237-241: stderr_pipe_failed.
create_child_stderr_pipe_failed ==
  /\ cc_pc = "stderr_pipe_failed"
  /\ pfd' = IF child.stdout_fd = REDIRECT_PIPE THEN close_pipe(pfd, stdout_pipe) ELSE pfd
  /\ cc_pc' = "stdout_pipe_failed"
  /\ UNCHANGED <<child, in_child, use_function, in_pfd, stdin_pipe, stdout_pipe,
                 stderr_pipe, opened, kid_pc, kid_fd, kid_devnull, kid_euid, kid_egid>>
  /\ ChildFrame

\* create_child, lines 243-249: stdout_pipe_failed; return false.
create_child_stdout_pipe_failed ==
  /\ cc_pc = "stdout_pipe_failed"
  /\ pfd' = IF child.stdin_fd = REDIRECT_PIPE THEN close_pipe(pfd, stdin_pipe) ELSE pfd
  /\ cc_pc' = "ret_false"
  /\ UNCHANGED <<child, in_child, use_function, in_pfd, stdin_pipe, stdout_pipe,
                 stderr_pipe, opened, kid_pc, kid_fd, kid_devnull, kid_euid, kid_egid>>
  /\ ChildFrame

\* dup2(oldfd, newfd): newfd refers to what oldfd refers to; nothing happens
\* when oldfd is not open or newfd is not a descriptor number.
dup2(tab, oldfd, newfd) ==
  IF oldfd \in Fds /\ newfd \in Fds /\ tab[oldfd] # "closed"
  THEN [tab EXCEPT ![newfd] = tab[oldfd]] ELSE tab

\* open_devnull, lines 135-143: the descriptor it returns and the table after.
open_devnull(tab, devnull_fd) ==
  IF devnull_fd < 0
  THEN IF FreeFds(tab) # {}
       THEN [fd |-> LowestFree(tab), tab |-> [tab EXCEPT ![LowestFree(tab)] = "devnull"]]
       ELSE [fd |-> -1, tab |-> tab]
  ELSE [fd |-> devnull_fd, tab |-> tab]

\* The pipe end create_child's child branch names for a stream: lines 171, 178, 185.
child_pipe_end(stream) ==
  CASE stream = "stdin" -> stdin_pipe[1]
    [] stream = "stdout" -> stdout_pipe[2]
    [] OTHER -> stderr_pipe[2]

\* create_child, lines 170-175, 177-182, 184-189: one stream's redirection in
\* the child, on the child's copy of the descriptor.
child_redirect(tab, devnull_fd, stream, field) ==
  CASE field = REDIRECT_PIPE ->
         [tab |-> dup2(tab, 0, child_pipe_end(stream)), devnull |-> devnull_fd]
    [] field = REDIRECT_DEV_NULL ->
         [tab |-> dup2(open_devnull(tab, devnull_fd).tab, 0, open_devnull(tab, devnull_fd).fd),
          devnull |-> open_devnull(tab, devnull_fd).fd]
    [] field = NO_REDIRECT -> [tab |-> tab, devnull |-> devnull_fd]
    [] OTHER -> [tab |-> dup2(tab, 0, field.fd), devnull |-> devnull_fd]

\* create_child, lines 170-189, in the child.
kid_redirect ==
  /\ kid_pc = "redirect"
  /\ LET a == child_redirect(kid_fd, kid_devnull, "stdin", in_child.stdin_fd)
         b == child_redirect(a.tab, a.devnull, "stdout", in_child.stdout_fd)
         c == child_redirect(b.tab, b.devnull, "stderr", in_child.stderr_fd)
     IN kid_fd' = c.tab /\ kid_devnull' = c.devnull
  /\ kid_pc' = "close_all_fds"
  /\ UNCHANGED <<cc_pc, child, in_child, use_function, pfd, in_pfd, stdin_pipe,
                 stdout_pipe, stderr_pipe, opened, kid_euid, kid_egid>>
  /\ ChildFrame

\* close_all_fds, lines 108-133, called at line 191.
kid_close_all_fds ==
  /\ kid_pc = "close_all_fds"
  /\ kid_fd' = [i \in Fds |-> IF i \in {0, 1, 2} THEN kid_fd[i] ELSE "closed"]
  /\ kid_pc' = "setgid"
  /\ UNCHANGED <<cc_pc, child, in_child, use_function, pfd, in_pfd, stdin_pipe,
                 stdout_pipe, stderr_pipe, opened, kid_devnull, kid_euid, kid_egid>>
  /\ ChildFrame

\* create_child, line 193: (void) setgid(getgid()), which may fail.
kid_setgid ==
  /\ kid_pc = "setgid"
  /\ \E ok \in BOOLEAN : kid_egid' = IF ok THEN "real" ELSE kid_egid
  /\ kid_pc' = "setuid"
  /\ UNCHANGED <<cc_pc, child, in_child, use_function, pfd, in_pfd, stdin_pipe,
                 stdout_pipe, stderr_pipe, opened, kid_fd, kid_devnull, kid_euid>>
  /\ ChildFrame

\* create_child, line 194: (void) setuid(getuid()), which may fail.
kid_setuid ==
  /\ kid_pc = "setuid"
  /\ \E ok \in BOOLEAN : kid_euid' = IF ok THEN "real" ELSE kid_euid
  /\ kid_pc' = "run"
  /\ UNCHANGED <<cc_pc, child, in_child, use_function, pfd, in_pfd, stdin_pipe,
                 stdout_pipe, stderr_pipe, opened, kid_fd, kid_devnull, kid_egid>>
  /\ ChildFrame

\* create_child, lines 196-202: the entry function, or execv and _exit(1)
\* when it fails.
kid_run ==
  /\ kid_pc = "run"
  /\ IF use_function
     THEN kid_pc' = "function"
     ELSE \E ok \in BOOLEAN : kid_pc' = IF ok THEN "exec" ELSE "exit_1"
  /\ UNCHANGED <<cc_pc, child, in_child, use_function, pfd, in_pfd, stdin_pipe,
                 stdout_pipe, stderr_pipe, opened, kid_fd, kid_devnull, kid_euid,
                 kid_egid>>
  /\ ChildFrame

\* ========================================================= auth-pam.c: auth
PAM_MAX_NUM_MSG == 32

\* The return values of the PAM library that auth tells apart, and two that
\* stand for every other failure.
PamFailures ==
  {"PAM_CONV_ERR", "PAM_AUTH_ERR", "PAM_USER_UNKNOWN", "PAM_MAXTRIES",
   "PAM_AUTHINFO_UNAVAIL", "PAM_BUF_ERR", "PAM_SYSTEM_ERR"}
PamStatuses == {"PAM_SUCCESS"} \cup PamFailures

\* auth, lines 194-197: the statuses of pam_authenticate handled as a denial.
DenialStatuses == {"PAM_CONV_ERR", "PAM_AUTH_ERR", "PAM_USER_UNKNOWN", "PAM_MAXTRIES"}

\* msg_style of a pam_message: the four styles conversation knows and one more.
MsgStyles ==
  {"PAM_PROMPT_ECHO_OFF", "PAM_PROMPT_ECHO_ON", "PAM_TEXT_INFO", "PAM_ERROR_MSG",
   "PAM_BINARY_PROMPT"}

\* What prompt and prompt_echo_off do: return the answer, or return NULL with
\* the error set to a timeout or a cancel.
PromptOutcomes == {"answer", "TIMEOUT", "CANCEL"}

\* The messages of one call of conversation, with the outcome each prompt has
\* if it is reached.
Messages ==
  UNION {[1..n -> MsgStyles \X PromptOutcomes] : n \in 0..MaxMsg}

\* g_propagate_error(dest, src): *dest becomes src; with dest NULL src is
\* freed and nothing is stored.
g_propagate_error(slot, src) == IF slot = "NULL" THEN "NULL" ELSE src

\* conversation, lines 85-116 and 118-132: the loop over the messages.
RECURSIVE conversation_loop(_, _)
conversation_loop(msg, i) ==
  IF i > Len(msg) THEN [ret |-> "PAM_SUCCESS", error |-> "NULL"]
  ELSE IF msg[i][1] \in {"PAM_PROMPT_ECHO_OFF", "PAM_PROMPT_ECHO_ON"}
       THEN IF msg[i][2] = "answer"
            THEN conversation_loop(msg, i + 1)
            ELSE [ret |-> "PAM_CONV_ERR", error |-> msg[i][2]]
       ELSE IF msg[i][1] \in {"PAM_TEXT_INFO", "PAM_ERROR_MSG"}
            THEN conversation_loop(msg, i + 1)
            ELSE [ret |-> "PAM_CONV_ERR", error |-> "NULL"]

\* conversation, lines 73-133: its return value and conv_data->error after it.
conversation(cur_error, msg, calloc_ok) ==
  IF cur_error # "NULL" THEN [ret |-> "PAM_CONV_ERR", error |-> cur_error]
  ELSE IF ~(Len(msg) > 0 /\ Len(msg) < PAM_MAX_NUM_MSG)
       THEN [ret |-> "PAM_CONV_ERR", error |-> cur_error]
  ELSE IF ~calloc_ok THEN [ret |-> "PAM_BUF_ERR", error |-> cur_error]
  ELSE conversation_loop(msg, 1)

AuthInit ==
  /\ a_pc = "entry"
  /\ a_slot \in {"NULL", "unset", "set"}
  /\ error = IF a_slot = "set" THEN "EARLIER" ELSE "NULL"
  /\ error_sets = 0
  /\ pamh = "unset"
  /\ pam_status = "unset"
  /\ pam_end_status = "unset"
  /\ conv_data_error = "NULL"
  /\ conv_calls = 0
  /\ conv_ret = "none"
  /\ a_failed_at = "none"
  /\ a_result = FALSE
  /\ g_assert_on \in BOOLEAN

AuthIdle ==
  /\ a_pc = "entry"
  /\ a_slot = "unset"
  /\ error = "NULL"
  /\ error_sets = 0
  /\ pamh = "unset"
  /\ pam_status = "unset"
  /\ pam_end_status = "unset"
  /\ conv_data_error = "NULL"
  /\ conv_calls = 0
  /\ conv_ret = "none"
  /\ a_failed_at = "none"
  /\ a_result = FALSE
  /\ g_assert_on = TRUE

\* auth stores an error in *error: the slot afterwards and the count of stores.
auth_set_error(code) ==
  /\ error' = g_propagate_error(a_slot, code)
  /\ error_sets' = IF a_slot = "NULL" THEN error_sets ELSE error_sets + 1

\* auth, line 150: g_return_val_if_fail(error == NULL || *error == NULL, false).
auth_entry ==
  /\ a_pc = "entry"
  /\ IF a_slot = "set"
     THEN a_pc' = "returned" /\ a_result' = FALSE
     ELSE a_pc' = "pam_start" /\ UNCHANGED a_result
  /\ UNCHANGED <<a_slot, error, error_sets, pamh, pam_status, pam_end_status,
                 conv_data_error, conv_calls, conv_ret, a_failed_at, g_assert_on>>
  /\ AuthFrame

\* auth, lines 153-162: pam_start, which leaves the handle NULL when it fails.
auth_pam_start ==
  /\ a_pc = "pam_start"
  /\ \E st \in PamStatuses :
       /\ pam_status' = st
       /\ IF st # "PAM_SUCCESS"
          THEN /\ auth_set_error("FAILED")
               /\ pamh' = "NULL"
               /\ a_failed_at' = "pam_start"
               /\ a_pc' = "end"
          ELSE /\ pamh' = "valid"
               /\ a_pc' = "pam_set_item"
               /\ UNCHANGED <<error, error_sets, a_failed_at>>
  /\ UNCHANGED <<a_slot, pam_end_status, conv_data_error, conv_calls, conv_ret,
                 a_result, g_assert_on>>
  /\ AuthFrame

\* auth, lines 165-179: ttyname, and pam_set_item when stdin is a terminal.
auth_pam_set_item ==
  /\ a_pc = "pam_set_item"
  /\ \E pam_tty \in {"NULL", "tty"}, st \in PamStatuses :
       IF pam_tty # "NULL"
       THEN /\ pam_status' = st
            /\ IF st # "PAM_SUCCESS"
               THEN /\ auth_set_error("FAILED")
                    /\ a_failed_at' = "pam_set_item"
                    /\ a_pc' = "end"
               ELSE /\ a_pc' = "pam_authenticate"
                    /\ UNCHANGED <<error, error_sets, a_failed_at>>
       ELSE /\ a_pc' = "pam_authenticate"
            /\ UNCHANGED <<pam_status, error, error_sets, a_failed_at>>
  /\ UNCHANGED <<a_slot, pamh, pam_end_status, conv_data_error, conv_calls,
                 conv_ret, a_result, g_assert_on>>
  /\ AuthFrame

\* A module of the PAM stack calls the conversation function during
\* pam_authenticate (line 192).
auth_conversation ==
  /\ a_pc = "pam_authenticate"
  /\ conv_calls < MaxConv
  /\ \E msg \in Messages, calloc_ok \in BOOLEAN :
       /\ conv_data_error' = conversation(conv_data_error, msg, calloc_ok).error
       /\ conv_ret' = conversation(conv_data_error, msg, calloc_ok).ret
  /\ conv_calls' = conv_calls + 1
  /\ UNCHANGED <<a_pc, a_slot, error, error_sets, pamh, pam_status, pam_end_status,
                 a_failed_at, a_result, g_assert_on>>
  /\ AuthFrame

\* auth, lines 194-214: the error stored for a status of pam_authenticate, or
\* "abort" where g_assert(conv_data.error == NULL) fails, or "none".
auth_classify(st, conv_error, assert_on) ==
  IF st \in DenialStatuses
  THEN IF conv_error # "NULL" THEN conv_error ELSE "DENIED"
  ELSE IF st # "PAM_SUCCESS"
       THEN IF assert_on /\ conv_error # "NULL" THEN "abort" ELSE "FAILED"
       ELSE "none"

\* auth, lines 192-214: pam_authenticate returns and its status is handled.
auth_pam_authenticate ==
  /\ a_pc = "pam_authenticate"
  /\ \E st \in PamStatuses :
       /\ pam_status' = st
       /\ a_failed_at' = IF st # "PAM_SUCCESS" THEN "pam_authenticate" ELSE a_failed_at
       /\ LET code == auth_classify(st, conv_data_error, g_assert_on)
          IN CASE code = "abort" -> a_pc' = "aborted" /\ UNCHANGED <<error, error_sets>>
               [] code = "none" -> a_pc' = "end" /\ UNCHANGED <<error, error_sets>>
               [] OTHER -> a_pc' = "end" /\ auth_set_error(code)
  /\ UNCHANGED <<a_slot, pamh, pam_end_status, conv_data_error, conv_calls,
                 conv_ret, a_result, g_assert_on>>
  /\ AuthFrame

\* auth, line 227: the value returned.
auth_return_value(end_status, status) ==
  end_status = "PAM_SUCCESS" /\ status = "PAM_SUCCESS"

\* auth, lines 216-227: pam_end, which fails on a NULL handle, the error for
\* its failure, and the return.
auth_pam_end ==
  /\ a_pc = "end"
  /\ \E st \in (IF pamh = "valid" THEN PamStatuses ELSE {"PAM_SYSTEM_ERR"}) :
       /\ pam_end_status' = st
       /\ IF st # "PAM_SUCCESS" /\ a_slot # "NULL" /\ error = "NULL"
          THEN auth_set_error("FAILED")
          ELSE UNCHANGED <<error, error_sets>>
       /\ a_result' = auth_return_value(st, pam_status)
  /\ a_pc' = "returned"
  /\ UNCHANGED <<a_slot, pamh, pam_status, conv_data_error, conv_calls, conv_ret,
                 a_failed_at, g_assert_on>>
  /\ AuthFrame

\* ====================================================== specifications
NextTsort == tsort_begin \/ tsort_while \/ tsort_for \/ tsort_return \/ tsort_rerun

InitSpecTsort == TsortInit /\ LockIdle /\ DeathIdle /\ ChildIdle /\ AuthIdle

SpecTsort == InitSpecTsort /\ [][NextTsort]_vars

NextLock ==
  \/ mask_signals \/ ignore_sigchld \/ restore_signals
  \/ release_vt \/ acquire_vt \/ signal_ignorer \/ signal_die \/ sigchld_ignored
  \/ start_auth_child \/ start_other_child \/ auth_child_ends \/ other_child_ends
  \/ sigchld_raised

Init == LockInit /\ TsortIdle /\ DeathIdle /\ ChildIdle /\ AuthIdle

Spec == Init /\ [][NextLock]_vars

NextDeath ==
  \/ ensure_death_call \/ ensure_death_wnohang \/ ensure_death_sigterm
  \/ wfd_sigaction \/ wfd_setitimer \/ wfd_enter_waitpid \/ wfd_waitpid_reaps
  \/ wfd_timer_fires \/ wfd_restore_timer \/ wfd_restore_handler
  \/ ensure_death_sigkill \/ ensure_death_sigcont \/ ensure_death_final_reaps
  \/ caller_signal \/ child_exits \/ child_takes_signal

InitSpecDeath == DeathInit /\ TsortIdle /\ LockIdle /\ ChildIdle /\ AuthIdle

SpecDeath == InitSpecDeath /\ [][NextDeath]_vars

NextChild ==
  \/ create_child_stdin_pipe \/ create_child_stdout_pipe \/ create_child_stderr_pipe
  \/ create_child_fork
  \/ create_child_parent_stdin \/ create_child_parent_stdout \/ create_child_parent_stderr
  \/ create_child_fork_failed \/ create_child_stderr_pipe_failed
  \/ create_child_stdout_pipe_failed
  \/ kid_redirect \/ kid_close_all_fds \/ kid_setgid \/ kid_setuid \/ kid_run

InitSpecChild == ChildInit /\ TsortIdle /\ LockIdle /\ DeathIdle /\ AuthIdle

SpecChild == InitSpecChild /\ [][NextChild]_vars

NextAuth ==
  \/ auth_entry \/ auth_pam_start \/ auth_pam_set_item \/ auth_conversation
  \/ auth_pam_authenticate \/ auth_pam_end

InitSpecAuth == AuthInit /\ TsortIdle /\ LockIdle /\ DeathIdle /\ ChildIdle

SpecAuth == InitSpecAuth /\ [][NextAuth]_vars

\* ====================================================== claims: tsort.h
Range(list) == {list[i] : i \in 1..Len(list)}
Pos(list, x) == CHOOSE i \in 1..Len(list) : list[i] = x

Successors(S, es) == {es[i].successor : i \in {j \in 1..Len(es) : es[j].predecessor \in S}}
RECURSIVE ReachFrom(_, _, _)
ReachFrom(S, es, k) == IF k = 0 THEN S ELSE ReachFrom(S \cup Successors(S, es), es, k - 1)
\* An edge lies on a cycle iff its predecessor can be reached from its successor.
OnCycle(e, es) == e.predecessor \in ReachFrom({e.successor}, es, Len(es))
HasCycle(es) == \E i \in 1..Len(es) : OnCycle(es[i], es)
EndpointsKnown(ns, es) ==
  \A i \in 1..Len(es) : es[i].predecessor \in Range(ns) /\ es[i].successor \in Range(ns)
MissingNodes(ns, es) ==
  ({es[i].predecessor : i \in 1..Len(es)} \cup {es[i].successor : i \in 1..Len(es)})
    \ Range(ns)
\* The edge list the running call started from.
CallEdges == IF run = 1 THEN in_edges ELSE run_edges
InitiallyReady == SelectSeq(in_nodes, LAMBDA n : is_zero(n, CallEdges))

\* C3: for every graph with unique nodes, all edge endpoints in the node list
\* and no cycle, tsort returns true (it does not die on the way), the edge list
\* is empty on return, and every original edge's predecessor comes before its
\* successor in the resulting node list.
C3_AcyclicGraphSorted ==
  (run = 1 /\ EndpointsKnown(in_nodes, in_edges) /\ ~HasCycle(in_edges)) =>
     /\ tpc # "crashed"
     /\ tpc = "done" =>
          /\ result
          /\ edges = <<>>
          /\ \A i \in 1..Len(in_edges) :
               /\ in_edges[i].predecessor \in Range(nodes)
               /\ in_edges[i].successor \in Range(nodes)
               /\ Pos(nodes, in_edges[i].predecessor) < Pos(nodes, in_edges[i].successor)

\* C4: for every graph that contains a cycle, tsort returns false with every
\* edge that lies on a cycle still in the edge list, and a second call on what
\* was left returns false again and leaves exactly the same edges.
C4_CycleFailsAndStays ==
  HasCycle(in_edges) =>
     /\ tpc # "crashed"
     /\ tpc = "done" =>
          /\ ~result
          /\ \A i \in 1..Len(in_edges) :
               OnCycle(in_edges[i], in_edges) => in_edges[i] \in Range(edges)
          /\ run = 2 => edges = run_edges

\* C5: if an edge names a node that is not in the node list, as predecessor or
\* as successor, tsort returns false, that edge is left in the edge list, and
\* the missing node never appears in the sorted output.
C5_MissingNodeFails ==
  (run = 1 /\ ~EndpointsKnown(in_nodes, in_edges)) =>
     /\ tpc # "crashed"
     /\ Range(sorted_nodes) \cap MissingNodes(in_nodes, in_edges) = {}
     /\ tpc = "done" =>
          /\ ~result
          /\ Range(nodes) \cap MissingNodes(in_nodes, in_edges) = {}
          /\ \A i \in 1..Len(in_edges) :
               (in_edges[i].predecessor \notin Range(in_nodes)
                  \/ in_edges[i].successor \notin Range(in_nodes))
               => in_edges[i] \in Range(edges)

\* C6: ready nodes are output in the order they became ready (the queue of
\* ready nodes is served first in, first out), the initially ready nodes are
\* the nodes without incoming edge in node-list order, and a node list with no
\* edges sorts successfully to exactly its original order.
C6_InsertionOrder ==
  /\ sorted_nodes \o zeros = readyLog
  /\ tpc \notin {"start"} =>
       /\ Len(readyLog) >= Len(InitiallyReady)
       /\ SubSeq(readyLog, 1, Len(InitiallyReady)) = InitiallyReady
  /\ (tpc = "done" /\ in_edges = <<>>) => (result /\ nodes = in_nodes)

\* C6 witness: a call on three nodes listed in descending order and no edges
\* has returned that list.
C6_Witness ==
  tpc = "done" /\ in_edges = <<>> /\ in_nodes = <<3, 2, 1>> /\ result /\ nodes = <<3, 2, 1>>

\* =================================================== claims: signals.c
\* C1: the locking process leaves the locked state through signal_die only
\* after an authentication attempt that succeeded: when signal_die has reaped
\* the authentication child and called exit(0), that child ended with exit
\* status 0, not with a nonzero status and not by a signal.
C1_FailedAttemptNeverUnlocks ==
  (lk_state = "exited" /\ die_wait = "auth") => auth_status = "success"

\* C2: every delivery of SIGUSR1 while locked makes release_vt answer
\* VT_RELDISP 0 when the lock-all flag is set and VT_RELDISP 1 when it is clear,
\* and changes nothing else; and with lock-all set no step at all, of release_vt
\* or acquire_vt, tells the kernel 1 (switch allowed).
C2_ReleaseVtAnswer ==
  [][ /\ o_lock_all => reldisp' # 1
      /\ (reldisp_by' = "release_vt" /\ <<reldisp, reldisp_by>>' # <<reldisp, reldisp_by>>)
           => /\ lk_state = "locked"
              /\ reldisp' = IF o_lock_all THEN 0 ELSE 1
              /\ UNCHANGED <<lk_state, sigmask, osig, handler, o_lock_all, auth_st,
                             auth_status, other_st, chld_pending, die_wait,
                             terminal_restored, mask_calls, restore_calls, pre_mask>>
    ]_vars

\* C2 witness: with lock-all set, release_vt has answered a switch-away signal.
C2_Witness ==
  lk_state = "locked" /\ o_lock_all /\ reldisp_by = "release_vt" /\ reldisp = 0

\* ============================================ claims: process.c, ensure_death
\* C7: when ensure_death returns for a pid that was a child of the caller when
\* it was called, a waitpid inside the call has returned that pid.
C7_ReturnedMeansReaped ==
  (ed_pc = "returned" /\ ed_was_child) => ed_reaped

\* C8: a call whose initial non-blocking waitpid finds the child already
\* exited, or finds that the pid is no child, sends no signal; and a second
\* call on the same pid after a completed first call sends no signal.
C8_SecondCallSendsNothing ==
  /\ ed_first \in {"-1", "pid"} => ed_sent = <<>>
  /\ ed_call >= 2 => ed_sent = <<>>

\* ============================================ claims: process.c, create_child
Field(rec, stream) ==
  CASE stream = "stdin" -> rec.stdin_fd
    [] stream = "stdout" -> rec.stdout_fd
    [] OTHER -> rec.stderr_fd
\* What the parent's end and the child's end of a stream's pipe refer to.
ParentEndOf(stream) == IF stream = "stdin" THEN "stdin_w" ELSE stream \o "_r"
ChildEndOf(stream) == IF stream = "stdin" THEN "stdin_r" ELSE stream \o "_w"
PipedStreams == {s \in Streams : Field(in_child, s) = REDIRECT_PIPE}

\* C9: when create_child returns false, after a failed pipe() or a failed
\* fork(), every descriptor it opened is closed again (the parent's table is
\* the one it was called with), there is no child process, and the three
\* stream fields hold what the caller passed in.
C9_FailsAtomically ==
  cc_pc = "ret_false" =>
     /\ \A fd \in opened : pfd[fd] = "closed"
     /\ pfd = in_pfd
     /\ kid_pc = "none"
     /\ \A s \in Streams : Field(child, s) = Field(in_child, s)

\* C9 witness: fork() failed after all three pipes were opened, and
\* create_child has returned false.
C9_Witness ==
  cc_pc = "ret_false" /\ child.pid = "-1" /\ Cardinality(opened) = 6

\* C10: when create_child returns true, each stream requested as a pipe has in
\* its field an open descriptor of the parent that is the parent's end of that
\* stream's pipe (write end for stdin, read end for stdout and stderr), no
\* descriptor of the parent refers to the other end, the returned descriptors
\* are pairwise distinct, and every other stream's field is unchanged.
C10_ParentEnds ==
  cc_pc = "ret_true" =>
     /\ \A s \in PipedStreams :
          /\ Field(child, s).mode = "fd"
          /\ Field(child, s).fd \in Fds
          /\ pfd[Field(child, s).fd] = ParentEndOf(s)
          /\ \A i \in Fds : pfd[i] # ChildEndOf(s)
     /\ \A s, t \in PipedStreams : s # t => Field(child, s).fd # Field(child, t).fd
     /\ \A s \in Streams \ PipedStreams : Field(child, s) = Field(in_child, s)

\* C10 witness: create_child has returned true with all three streams
\* requested as pipes.
C10_Witness ==
  cc_pc = "ret_true" /\ PipedStreams = Streams

\* The descriptor number of a standard stream, and what that descriptor must
\* refer to in the child for the value the caller put in the stream's field.
StreamFd(stream) == CASE stream = "stdin" -> 0 [] stream = "stdout" -> 1 [] OTHER -> 2
RedirectTarget(stream) ==
  LET field == Field(in_child, stream)
  IN CASE field = REDIRECT_PIPE -> ChildEndOf(stream)
       [] field = REDIRECT_DEV_NULL -> "devnull"
       [] field = NO_REDIRECT -> in_pfd[StreamFd(stream)]
       [] OTHER -> in_pfd[field.fd]

\* C11: in the child, when the entry function or the exec is reached, each
\* stream's descriptor (0, 1, 2) refers to its own target: the child's end of
\* that stream's pipe when the stream is marked pipe, /dev/null or the given
\* descriptor for the other redirect modes, and what it was otherwise.
C11_ChildStreamsRedirected ==
  kid_pc \in {"function", "exec"} =>
     \A s \in Streams : kid_fd[StreamFd(s)] = RedirectTarget(s)

\* C20: the entry function or the new image is reached only with every
\* descriptor other than 0, 1 and 2 closed and with the effective group and
\* the effective user equal to the real ones, also when setgid or setuid
\* failed.
C20_RunsUnprivileged ==
  kid_pc \in {"function", "exec"} =>
     /\ \A i \in Fds \ {0, 1, 2} : kid_fd[i] = "closed"
     /\ kid_egid = "real"
     /\ kid_euid = "real"

\* ============================================ claims: process.c, wait_for_death
\* The positions inside wait_for_death.
WfdPcs ==
  {"wfd_sigaction", "wfd_setitimer", "wfd_call_waitpid", "wfd_waitpid",
   "wfd_restore_timer", "wfd_restore_handler"}

C13_WaitEndsOnlyOnDeathOrTimeout ==
  [][ (ed_pc = "wfd_waitpid" /\ ed_pc' # "wfd_waitpid")
        => \/ wfd_result' /\ k_st' = "reaped"
           \/ ~wfd_result' /\ itimer = "wfd" /\ itimer' = "off"
    ]_vars

\* ===================================== claims: signals.c, mask and handlers
\* C14: whatever number of mask_signals calls the lock session has made,
\* restore_signals leaves the process with the signal mask that was in force
\* before the first mask_signals call, for every initial mask.
C14_RestoreGivesPreLockMask ==
  [][ restore_calls' = restore_calls + 1 => sigmask' = pre_mask ]_vars

\* C15: after one mask_signals followed by restore_signals, the signal mask
\* and the handler table are both what they were before mask_signals.
C15_MaskAndHandlersRestored ==
  [][ (restore_calls' = restore_calls + 1 /\ mask_calls = 1)
        => /\ sigmask' = pre_mask
           /\ handler' = StartHandlers
    ]_vars

\* C16: right after mask_signals, for every initial mask, SIGUSR1, SIGUSR2 and
\* SIGCHLD are not blocked, each of SIGTSTP, SIGTTIN, SIGTTOU and SIGHUP is
\* blocked and has the no-op handler (its delivery cannot suspend or end the
\* process), and every other signal is blocked iff it was in the initial mask.
C16_MaskAfterMaskSignals ==
  [][ mask_calls' = mask_calls + 1
        => /\ {"SIGUSR1", "SIGUSR2", "SIGCHLD"} \cap sigmask' = {}
           /\ \A s \in JobSignals : s \in sigmask' /\ handler'[s] = "signal_ignorer"
           /\ \A s \in Signals \ (SwitchSignals \cup JobSignals \cup {"SIGCHLD"}) :
                (s \in sigmask') = (s \in pre_mask)
    ]_vars

\* C16 witness: mask_signals has run on a mask that blocked SIGUSR1, SIGCHLD
\* and SIGINT, and has left the four job-control signals and SIGINT blocked.
C16_Witness ==
  /\ mask_calls = 1 /\ restore_calls = 0
  /\ pre_mask = {"SIGUSR1", "SIGCHLD", "SIGINT"}
  /\ sigmask = JobSignals \cup {"SIGINT"}

\* C17: in every state of the lock session in which no authentication child
\* is outstanding (none started yet, or the last one reaped), the state right
\* after mask_signals included, SIGCHLD is not handled by signal_die.
C17_SignalDieOnlyWhileAuthOutstanding ==
  (lk_state = "locked" /\ auth_st \in {"none", "reaped"})
     => handler["SIGCHLD"] # "signal_die"

\* C18: signal_die ends the process only when its non-blocking reap returned
\* the authentication child; when the reap returned 0, -1 or another child,
\* the process is still locked.
C18_DieOnlyOnAuthChild ==
  lk_state = "exited" => die_wait = "auth"

\* ============================================ claims: process.c, escalation
\* C19: ensure_death escalates in a fixed order: nothing is sent before the
\* first waitpid found the child running; SIGTERM goes first; SIGKILL goes only
\* after SIGTERM and after wait_for_death returned without reaping the child;
\* SIGCONT follows SIGKILL with no step of the caller in between; the final
\* waitpid is entered only after all three; and the caller is never about to
\* send a signal to a child it has reaped.
C19_EscalationOrder ==
  /\ ed_pc \in {"idle", "wnohang", "sigterm"} => ed_sent = <<>>
  /\ ed_pc \in WfdPcs \cup {"sigkill"} => ed_sent = <<"SIGTERM">>
  /\ ed_pc = "sigkill" => ~wfd_result /\ ~ed_reaped
  /\ ed_pc = "sigcont" <=> ed_sent = <<"SIGTERM", "SIGKILL">>
  /\ ed_pc = "final_waitpid" => ed_sent = <<"SIGTERM", "SIGKILL", "SIGCONT">>
  /\ ed_pc = "returned" =>
       ed_sent \in {<<>>, <<"SIGTERM">>, <<"SIGTERM", "SIGKILL", "SIGCONT">>}
  /\ (ed_pc = "returned" /\ ed_sent = <<"SIGTERM">>) => ed_reaped
  /\ k_st = "reaped" => ed_pc \notin {"sigterm", "sigkill", "sigcont"}

\* C19 witness: a child that ignores SIGTERM has been sent SIGTERM, SIGKILL and
\* SIGCONT in that order and the caller is in the final waitpid.
C19_Witness ==
  /\ ed_pc = "final_waitpid" /\ k_ignores_term
  /\ ed_sent = <<"SIGTERM", "SIGKILL", "SIGCONT">>

\* C21: auth called with a non-NULL, unset error slot always comes back with a
\* consistent outcome: it returns true only if both pam_authenticate and
\* pam_end succeeded, and then the error is unset; it returns false exactly
\* when it has set the error, and sets it exactly once; a conversation error
\* (timeout or cancel) is reported as that error, a denial without one as
\* DENIED, and any other backend failure (pam_start, pam_set_item, another
\* status of pam_authenticate, pam_end) as FAILED.
C21_AuthOutcomeConsistent ==
  a_slot = "unset" =>
    /\ a_pc # "aborted"
    /\ a_pc = "returned" =>
         /\ a_result =>
              /\ pam_status = "PAM_SUCCESS" /\ pam_end_status = "PAM_SUCCESS"
              /\ error = "NULL"
         /\ ~a_result <=> error # "NULL"
         /\ error_sets = IF error = "NULL" THEN 0 ELSE 1
         /\ conv_data_error # "NULL" => error = conv_data_error
         /\ conv_data_error = "NULL" /\ a_failed_at = "pam_authenticate" =>
              error = IF pam_status \in DenialStatuses THEN "DENIED" ELSE "FAILED"
         /\ a_failed_at \in {"pam_start", "pam_set_item"} => error = "FAILED"
         /\ a_failed_at = "none" /\ ~a_result => error = "FAILED"

\* C22: tsort changes the node list only by reordering and only on success:
\* when it returns true the node list is a permutation of the input node list
\* (every input node exactly once, none added, none lost); when it returns
\* false the node list is the input list in its original order, and the edges
\* taken away are edges whose predecessor had been processed.
C22_NodesOnlyReordered ==
  (run = 1 /\ tpc = "done") =>
     IF result
     THEN /\ Len(nodes) = Len(in_nodes)
          /\ Range(nodes) = Range(in_nodes)
     ELSE /\ nodes = in_nodes
          /\ \A i \in 1..Len(in_edges) :
               in_edges[i] \notin Range(edges) =>
                 in_edges[i].predecessor \in Range(sorted_nodes)
====
